---- MODULE Spec2Model ----
(***************************************************************************)
(* The automatic check-in geofencing service (GeofencingService.ts): the   *)
(* background location task, processLocationUpdate, the check-in/check-out *)
(* gateway and the persisted GeofenceState.                                *)
(*                                                                         *)
(* Every `await` of the source is a step boundary: the platform may invoke *)
(* the task again, and the clock may advance, while an invocation is       *)
(* suspended.  Each invocation of the task runs in a slot of `inv`; the    *)
(* call of a GeofencingService method under way is held in `call`.         *)
(*                                                                         *)
(* Coordinates: all points lie on one meridian and latitude is measured in *)
(* metres of arc, so the great-circle distance is |lat1 - lat2|.           *)
(***************************************************************************)
EXTENDS Integers, Sequences, FiniteSets, TLC

VARIABLES
    clock,         \* Date.now(), in milliseconds
    geofenceItem,  \* AsyncStorage item 'geofence_state': <<>> or <<text>>
    authToken,     \* AsyncStorage item 'auth_token': <<>> or <<token>>
    inv,           \* the invocations of the location task, one per slot
    nSamples,      \* number of task events delivered so far
    registered,    \* the location task is registered with the platform
    call,          \* the call of a GeofencingService method under way
    nCalls,        \* number of GeofencingService calls made so far
    tokenItem,     \* AsyncStorage item 'token': <<>> or <<token>>
    server         \* the court the backend has the user checked in at

vars == <<clock, geofenceItem, authToken, inv, nSamples, registered, call, nCalls,
          tokenItem, server>>

----------------------------------------------------------------------------
(* Program constants *)

GEOFENCE_RADIUS == 75
CHECK_INTERVAL == 30000

(* Bounds of the model *)

MaxInFlight == 2      \* slots for concurrently suspended task invocations
MaxSamples == 2       \* task events delivered in one run
MaxTicks == 2         \* clock advances in one run
MaxCalls == 3         \* calls of GeofencingService methods in one run
MaxControlSamples == 1  \* task events in one run that calls the methods

TickMs == CHECK_INTERVAL \div 2
StartTime == 2 * CHECK_INTERVAL
EndTime == StartTime + MaxTicks * TickMs

Slots == 1 .. MaxInFlight

Null == "null"

(* The court catalog of the backend: two courts 100 m apart on the meridian *)
CourtA == [id |-> "A", latitude |-> 0, longitude |-> 0]
CourtB == [id |-> "B", latitude |-> 100, longitude |-> 0]

(* Responses of GET /api/courts; <<>> is also what fetchCourts returns on failure *)
Catalogs == {<<>>, <<CourtA, CourtB>>, <<CourtB, CourtA>>}

(* Latitudes of the location samples: at A, between A and B (50 m from  *)
(* each), at B, exactly 75 m past B, and far from both                   *)
Positions == {0, 50, 100, 175, 300}

Abs(x) == IF x < 0 THEN -x ELSE x

calculateDistance(lat1, lon1, lat2, lon2) == Abs(lat1 - lat2)

----------------------------------------------------------------------------
(* The state store *)

DefaultState == [currentCourtId |-> Null, lastCheckTime |-> 0]

JSONstringify(state) == <<state.currentCourtId, state.lastCheckTime>>

JSONparse(text) == [currentCourtId |-> text[1], lastCheckTime |-> text[2]]

(* JSON.parse(text) returns: the text is a whole serialized state *)
Parses(text) == Len(text) = 2

(* getGeofenceState trusting the stored text: a text cut short yields a    *)
(* state without lastCheckTime                                             *)
getGeofenceStateUnguarded(item, readOk) ==
    IF readOk /\ Len(item) > 0
    THEN IF Parses(item[1]) THEN JSONparse(item[1])
         ELSE [currentCourtId |-> item[1][1], lastCheckTime |-> -1]
    ELSE DefaultState

(* getGeofenceState: the default when the item is absent, when the read    *)
(* throws or when JSON.parse throws                                        *)
getGeofenceState(item, readOk) ==
    IF readOk /\ Len(item) > 0 /\ Parses(item[1]) THEN JSONparse(item[1]) ELSE DefaultState

(* saveGeofenceState: the item after the call; unchanged when setItem throws *)
saveGeofenceState(item, state, writeOk) ==
    IF writeOk THEN <<JSONstringify(state)>> ELSE item

----------------------------------------------------------------------------
(* The evaluation *)

(* The throttle with the interval taken in seconds instead of milliseconds *)
ThrottledSeconds(now, lastCheckTime) == now - lastCheckTime < CHECK_INTERVAL \div 1000

(* Lines 1248-1252: the sample is dropped *)
Throttled(now, lastCheckTime) == now - lastCheckTime < CHECK_INTERVAL

(* The loop with the radius compared by <= : a court at exactly             *)
(* GEOFENCE_RADIUS would be entered                                         *)
RECURSIVE ScanInclusive(_, _, _)
ScanInclusive(courts, k, latitude) ==
    IF k = 0 THEN <<Null, -1>>
    ELSE LET prev == ScanInclusive(courts, k - 1, latitude)
             court == courts[k]
             distance == calculateDistance(latitude, 0, court.latitude, court.longitude)
         IN IF distance <= GEOFENCE_RADIUS /\ (prev[2] = -1 \/ distance < prev[2])
            THEN <<court.id, distance>>
            ELSE prev

(* The loop of processLocationUpdate over courts[1..k]: the pair            *)
(* <<nearestCourt id, minDistance>>; minDistance -1 stands for Infinity     *)
RECURSIVE Scan(_, _, _)
Scan(courts, k, latitude) ==
    IF k = 0 THEN <<Null, -1>>
    ELSE LET prev == Scan(courts, k - 1, latitude)
             court == courts[k]
             distance == calculateDistance(latitude, 0, court.latitude, court.longitude)
         IN IF distance < GEOFENCE_RADIUS /\ (prev[2] = -1 \/ distance < prev[2])
            THEN <<court.id, distance>>
            ELSE prev

NearestCourt(courts, latitude) == Scan(courts, Len(courts), latitude)[1]

----------------------------------------------------------------------------
(* The invocations of the location task *)

checkin(courtId) == [op |-> "checkin", court |-> courtId]
checkout(courtId) == [op |-> "checkout", court |-> courtId]

(* A slot no invocation has used.  Fields up to nearestCourt are the locals  *)
(* of processLocationUpdate; the rest record what the invocation did:        *)
(*   seq, deliveredAt  the number and the time of its task event             *)
(*   during      the invocations suspended when it was invoked: <<seq, b>>,  *)
(*               b true when that invocation had loaded the state            *)
(*   loaded      the state getGeofenceState returned                         *)
(*   fetched     GET /api/courts was sent                                    *)
(*   reqs        the check-in / check-out requests sent, in order            *)
(*   outOk, inOk the results of checkOutOfCourt and checkInToCourt           *)
(*   writes      calls of AsyncStorage.setItem('geofence_state', ...)        *)
(*   left        the persisted state when the invocation returned            *)
Blank ==
    [pc |-> "idle", location |-> 0, state |-> DefaultState, now |-> 0,
     courts |-> <<>>, nearestCourt |-> Null,
     seq |-> 0, deliveredAt |-> 0, during |-> {}, loaded |-> DefaultState,
     fetched |-> FALSE, reqs |-> <<>>, outOk |-> "none", inOk |-> "none",
     writes |-> 0, left |-> DefaultState]

Suspended(i) == inv[i].pc \notin {"idle", "done"}

(* Between the state load and the return of processLocationUpdate *)
InCycle(i) == inv[i].pc \notin {"idle", "invoked", "done"}

(* The slot a new invocation takes: an unused one, else the one whose        *)
(* invocation returned longest ago                                           *)
FreeSlot(i) ==
    /\ ~Suspended(i)
    /\ \A j \in Slots :
          ~Suspended(j) =>
             \/ inv[j].seq > inv[i].seq
             \/ (inv[j].seq = inv[i].seq /\ j >= i)

Persisted(item) == getGeofenceState(item, TRUE)

(* processLocationUpdate returns: the invocation of slot i is over *)
Return(r, item) == [r EXCEPT !.pc = "done", !.left = Persisted(item)]

(* No GeofencingService method is being called.  The fields record the    *)
(* call under way:                                                         *)
(*   op, pc      the method and the await it is suspended on               *)
(*   asked       the permissions requested and the answers, in order       *)
(*   started     calls of Location.startLocationUpdatesAsync that returned *)
(*   stopped     calls of Location.stopLocationUpdatesAsync that returned  *)
(*   result      the boolean a method returned ("none": no boolean;        *)
(*               "threw": the method ended in an exception)                *)
(*   got         the state getCurrentState returned                        *)
(*   readThrew   AsyncStorage.getItem threw in getCurrentState             *)
(*   was         the task was registered when the method was called        *)
(*   prior       the persisted state when the method was called            *)
(*   cut         the task events whose invocations were suspended when     *)
(*               stopLocationUpdatesAsync took effect, or were past their  *)
(*               load of the state when the save of clearState took effect *)
NoCall ==
    [op |-> "none", pc |-> "done", asked |-> <<>>, started |-> 0, stopped |-> 0,
     result |-> "none", got |-> DefaultState, readThrew |-> FALSE, was |-> FALSE,
     prior |-> DefaultState, cut |-> {}]

Init ==
    /\ clock = StartTime
    /\ geofenceItem = <<>>
    /\ authToken \in {<<>>, <<"jwt">>}
    /\ inv = [i \in Slots |-> Blank]
    /\ nSamples = 0
    /\ registered = TRUE
    /\ call = NoCall
    /\ nCalls = 0
    /\ tokenItem = <<>>
    /\ server = Null

(* Time passes *)
Tick ==
    /\ clock < EndTime
    /\ clock' = clock + TickMs
    /\ UNCHANGED <<server, tokenItem, geofenceItem, authToken, inv, nSamples, registered, call, nCalls>>

(* Task events: data.locations of one call of the task *)
Batches ==
    {<<>>} \cup {<<p>> : p \in Positions} \cup {<<p, q>> : p \in Positions, q \in Positions}

(* The platform runs the task (lines 1317-1330).  With an error, or with no *)
(* location, the task returns at once; otherwise processLocationUpdate is   *)
(* called with locations[0] and suspends on AsyncStorage.getItem            *)
TaskHandler(i, error, locations) ==
    /\ registered
    /\ nSamples < MaxSamples
    /\ FreeSlot(i)
    /\ nSamples' = nSamples + 1
    /\ inv' = IF error \/ Len(locations) = 0
              THEN inv
              ELSE [inv EXCEPT ![i] =
                      [Blank EXCEPT !.pc = "invoked",
                                    !.location = locations[1],
                                    !.seq = nSamples + 1,
                                    !.deliveredAt = clock,
                                    !.during = {<<inv[j].seq, InCycle(j)>> : j \in {k \in Slots : Suspended(k)}}]]
    /\ UNCHANGED <<server, tokenItem, clock, geofenceItem, authToken, registered, call, nCalls>>

(* Lines 1246-1255: the state is loaded, now is read and the throttle is    *)
(* checked; past it, GET /api/courts is sent                                *)
Load(i, readOk) ==
    /\ inv[i].pc = "invoked"
    /\ LET state == getGeofenceState(geofenceItem, readOk)
           r == [inv[i] EXCEPT !.state = state, !.loaded = state, !.now = clock]
       IN inv' = [inv EXCEPT ![i] =
                    IF Throttled(clock, state.lastCheckTime)
                    THEN Return(r, geofenceItem)
                    ELSE [r EXCEPT !.pc = "fetching", !.fetched = TRUE]]
    /\ UNCHANGED <<server, tokenItem, clock, geofenceItem, authToken, nSamples, registered, call, nCalls>>

(* Transition without the comparison of line 1281: a court in range is    *)
(* entered again although it is the current court                          *)
TransitionNoCompare(nearestCourt, currentCourtId) ==
    IF nearestCourt # Null
    THEN IF currentCourtId # Null THEN "outToken" ELSE "inToken"
    ELSE IF currentCourtId # Null THEN "outToken" ELSE "finalSave"

(* The branch of lines 1279-1309 taken for a nearest court and a loaded     *)
(* currentCourtId: the next suspension point                                *)
Transition(nearestCourt, currentCourtId) ==
    IF nearestCourt # Null
    THEN IF currentCourtId # nearestCourt
         THEN IF currentCourtId # Null THEN "outToken" ELSE "inToken"
         ELSE "finalSave"
    ELSE IF currentCourtId # Null THEN "outToken" ELSE "finalSave"

(* FetchResp without the return of lines 1256-1258: an empty catalog is    *)
(* evaluated like any other, so every court is out of range                *)
FetchRespNoEmptyCheck(i, courts) ==
    /\ inv[i].pc = "fetching"
    /\ LET nearest == NearestCourt(courts, inv[i].location)
           r == [inv[i] EXCEPT !.courts = courts, !.nearestCourt = nearest]
       IN inv' = [inv EXCEPT ![i] =
                    [r EXCEPT !.pc = Transition(nearest, inv[i].state.currentCourtId)]]
    /\ UNCHANGED <<server, tokenItem, clock, geofenceItem, authToken, nSamples, registered, call, nCalls>>

(* Lines 1255-1285: the catalog arrives (<<>> when the request failed), the *)
(* nearest court in the radius is found and the transition is chosen        *)
FetchResp(i, courts) ==
    /\ inv[i].pc = "fetching"
    /\ LET nearest == NearestCourt(courts, inv[i].location)
           r == [inv[i] EXCEPT !.courts = courts, !.nearestCourt = nearest]
       IN inv' = [inv EXCEPT ![i] =
                    IF Len(courts) = 0
                    THEN Return(r, geofenceItem)
                    ELSE [r EXCEPT !.pc = Transition(nearest, inv[i].state.currentCourtId)]]
    /\ UNCHANGED <<server, tokenItem, clock, geofenceItem, authToken, nSamples, registered, call, nCalls>>

(* After checkOutOfCourt: the check-in of a switch, or the save of an exit *)
AfterCheckOut(r) == IF r.nearestCourt # Null THEN "inToken" ELSE "exitSave"

(* CheckOutToken with the POST not awaited: the cycle goes on while the    *)
(* check-out request is outstanding                                        *)
CheckOutTokenNoAwait(i, readOk) ==
    /\ inv[i].pc = "outToken"
    /\ LET r == inv[i]
       IN inv' = [inv EXCEPT ![i] =
                    IF readOk /\ Len(authToken) > 0
                    THEN [r EXCEPT !.pc = AfterCheckOut(r),
                                   !.reqs = Append(@, checkout(r.state.currentCourtId))]
                    ELSE [r EXCEPT !.pc = AfterCheckOut(r), !.outOk = "fail"]]
    /\ UNCHANGED <<server, tokenItem, clock, geofenceItem, authToken, nSamples, registered, call, nCalls>>

(* checkOutOfCourt, lines 1209-1221: the token is read; without one (or    *)
(* when the read throws) the call returns false, else the POST is sent     *)
CheckOutToken(i, readOk) ==
    /\ inv[i].pc = "outToken"
    /\ LET r == inv[i]
       IN inv' = [inv EXCEPT ![i] =
                    IF readOk /\ Len(authToken) > 0
                    THEN [r EXCEPT !.pc = "outWait",
                                   !.reqs = Append(@, checkout(r.state.currentCourtId))]
                    ELSE [r EXCEPT !.pc = AfterCheckOut(r), !.outOk = "fail"]]
    /\ UNCHANGED <<server, tokenItem, clock, geofenceItem, authToken, nSamples, registered, call, nCalls>>

(* checkOutOfCourt, lines 1217-1228: the POST succeeds or throws; the      *)
(* result is not used by processLocationUpdate (lines 1285, 1302)          *)
CheckOutResp(i, ok) ==
    /\ inv[i].pc = "outWait"
    /\ inv' = [inv EXCEPT ![i] =
                 [@ EXCEPT !.pc = AfterCheckOut(inv[i]),
                           !.outOk = IF ok THEN "ok" ELSE "fail"]]
    /\ server' = IF ok THEN Null ELSE server
    /\ UNCHANGED <<tokenItem, clock, geofenceItem, authToken, nSamples, registered, call, nCalls>>

(* After checkInToCourt: lines 1290-1296 *)
AfterCheckIn(success) == IF success THEN "enterSave" ELSE "finalSave"

(* checkInToCourt posting the request whether or not a token was read *)
CheckInTokenUnchecked(i, readOk) ==
    /\ inv[i].pc = "inToken"
    /\ LET r == inv[i]
       IN inv' = [inv EXCEPT ![i] =
                    IF readOk
                    THEN [r EXCEPT !.pc = "inWait",
                                   !.reqs = Append(@, checkin(r.nearestCourt))]
                    ELSE [r EXCEPT !.pc = AfterCheckIn(FALSE), !.inOk = "fail"]]
    /\ UNCHANGED <<server, tokenItem, clock, geofenceItem, authToken, nSamples, registered, call, nCalls>>

(* checkInToCourt, lines 1184-1196 *)
CheckInToken(i, readOk) ==
    /\ inv[i].pc = "inToken"
    /\ LET r == inv[i]
       IN inv' = [inv EXCEPT ![i] =
                    IF readOk /\ Len(authToken) > 0
                    THEN [r EXCEPT !.pc = "inWait",
                                   !.reqs = Append(@, checkin(r.nearestCourt))]
                    ELSE [r EXCEPT !.pc = AfterCheckIn(FALSE), !.inOk = "fail"]]
    /\ UNCHANGED <<server, tokenItem, clock, geofenceItem, authToken, nSamples, registered, call, nCalls>>

(* checkInToCourt, lines 1192-1203 *)
CheckInResp(i, ok) ==
    /\ inv[i].pc = "inWait"
    /\ inv' = [inv EXCEPT ![i] =
                 [@ EXCEPT !.pc = AfterCheckIn(ok),
                           !.inOk = IF ok THEN "ok" ELSE "fail"]]
    /\ server' = IF ok THEN inv[i].nearestCourt ELSE server
    /\ UNCHANGED <<tokenItem, clock, geofenceItem, authToken, nSamples, registered, call, nCalls>>

(* Lines 1291-1294: the new court is saved after a successful check-in *)
EnterSave(i, writeOk) ==
    /\ inv[i].pc = "enterSave"
    /\ geofenceItem' = saveGeofenceState(geofenceItem,
                          [currentCourtId |-> inv[i].nearestCourt,
                           lastCheckTime |-> inv[i].now], writeOk)
    /\ inv' = [inv EXCEPT ![i] =
                 [@ EXCEPT !.pc = "finalSave", !.writes = @ + 1]]
    /\ UNCHANGED <<server, tokenItem, clock, authToken, nSamples, registered, call, nCalls>>

(* Lines 1303-1306: null is saved after the check-out of an exit *)
ExitSave(i, writeOk) ==
    /\ inv[i].pc = "exitSave"
    /\ geofenceItem' = saveGeofenceState(geofenceItem,
                          [currentCourtId |-> Null,
                           lastCheckTime |-> inv[i].now], writeOk)
    /\ inv' = [inv EXCEPT ![i] =
                 [@ EXCEPT !.pc = "finalSave", !.writes = @ + 1]]
    /\ UNCHANGED <<server, tokenItem, clock, authToken, nSamples, registered, call, nCalls>>

(* The final save leaving lastCheckTime alone after a failed gateway call *)
FinalStateOnSuccess(r) ==
    IF r.outOk # "fail" /\ r.inOk # "fail"
    THEN [r.state EXCEPT !.lastCheckTime = r.now]
    ELSE r.state

(* The final save keeping the court of a successful check-in *)
FinalStateKeepingEnter(r) ==
    [currentCourtId |-> IF r.inOk = "ok" THEN r.nearestCourt ELSE r.state.currentCourtId,
     lastCheckTime |-> r.now]

(* The object the last save of a cycle stores (lines 1312-1313): the       *)
(* object loaded at line 1246 with lastCheckTime set to now                *)
FinalState(r) == [r.state EXCEPT !.lastCheckTime = r.now]

(* Lines 1311-1314 *)
FinalSave(i, writeOk) ==
    /\ inv[i].pc = "finalSave"
    /\ geofenceItem' = saveGeofenceState(geofenceItem, FinalState(inv[i]), writeOk)
    /\ inv' = [inv EXCEPT ![i] =
                 Return([@ EXCEPT !.state = FinalState(inv[i]),
                                  !.writes = @ + 1],
                        geofenceItem')]
    /\ UNCHANGED <<server, tokenItem, clock, authToken, nSamples, registered, call, nCalls>>

(* The platform delivers a task event *)
Deliver ==
    \E i \in Slots, error \in BOOLEAN, locations \in Batches :
       TaskHandler(i, error, locations)

(* A suspended invocation resumes; `storage` holds the possible outcomes of *)
(* a storage call (TRUE: it returns, FALSE: it throws)                      *)
Resume(storage) ==
    \E i \in Slots :
       \/ \E readOk \in storage : Load(i, readOk)
       \/ \E courts \in Catalogs : FetchResp(i, courts)
       \/ \E readOk \in storage : CheckOutToken(i, readOk)
       \/ \E ok \in BOOLEAN : CheckOutResp(i, ok)
       \/ \E readOk \in storage : CheckInToken(i, readOk)
       \/ \E ok \in BOOLEAN : CheckInResp(i, ok)
       \/ \E writeOk \in storage : EnterSave(i, writeOk)
       \/ \E writeOk \in storage : ExitSave(i, writeOk)
       \/ \E writeOk \in storage : FinalSave(i, writeOk)

(* Spec: AsyncStorage is reliable.  FaultySpec: its calls may throw. *)
Next == Tick \/ Deliver \/ Resume({TRUE})

Spec == Init /\ [][Next]_vars

NextFaulty == Tick \/ Deliver \/ Resume(BOOLEAN)

FaultySpec == Init /\ [][NextFaulty]_vars

----------------------------------------------------------------------------
(* The methods of GeofencingService, and login, register and logout of the *)
(* AuthProvider.  One call is under way at a time: the profile screen      *)
(* awaits each call.  `ok` is the outcome of a platform call (TRUE: it     *)
(* returns, FALSE: it throws).                                             *)

Methods == {"start", "stop", "active", "get", "clear", "permissions", "login", "logout"}

Statuses == {"granted", "denied", "undetermined"}

(* The await a method suspends on first *)
FirstAwait(op) ==
    CASE op \in {"start", "stop", "active"} -> "isRegistered"
      [] op = "get" -> "getItem"
      [] op = "clear" -> "setItem"
      [] op = "permissions" -> "getForeground"
      [] op = "login" -> "post"
      [] op = "logout" -> "removeItem"

(* A permission request and what the platform answered *)
Answer(permission, ok, status) ==
    [permission |-> permission, status |-> IF ok THEN status ELSE "threw"]

(* The method returns *)
Returns(c, result) == [c EXCEPT !.pc = "done", !.result = result]

(* A method of GeofencingService is called *)
Begin(op) ==
    /\ call.pc = "done"
    /\ nCalls < MaxCalls
    /\ nCalls' = nCalls + 1
    /\ call' = [NoCall EXCEPT !.op = op, !.pc = FirstAwait(op),
                              !.was = registered,
                              !.prior = Persisted(geofenceItem)]
    /\ UNCHANGED <<server, tokenItem, clock, geofenceItem, authToken, inv, nSamples, registered>>

(* startGeofencing, lines 1337-1344: isTaskRegisteredAsync resolves *)
StartCheck(ok) ==
    /\ call.op = "start" /\ call.pc = "isRegistered"
    /\ call' = IF ~ok THEN Returns(call, "false")
               ELSE IF registered THEN Returns(call, "true")
               ELSE [call EXCEPT !.pc = "foreground"]
    /\ UNCHANGED <<server, tokenItem, clock, geofenceItem, authToken, inv, nSamples, registered, nCalls>>

(* startGeofencing answering the foreground permission as if granted *)
StartForegroundIgnored(ok, status) ==
    /\ call.op = "start" /\ call.pc = "foreground"
    /\ call' = IF ~ok
               THEN Returns([call EXCEPT !.asked = Append(@, Answer("foreground", ok, status))], "false")
               ELSE [call EXCEPT !.asked = Append(@, Answer("foreground", ok, status)), !.pc = "background"]
    /\ UNCHANGED <<server, tokenItem, clock, geofenceItem, authToken, inv, nSamples, registered, nCalls>>

(* startGeofencing, lines 1347-1352: requestForegroundPermissionsAsync *)
(* resolves with `status`                                              *)
StartForeground(ok, status) ==
    /\ call.op = "start" /\ call.pc = "foreground"
    /\ call' = IF ~ok \/ status # "granted"
               THEN Returns([call EXCEPT !.asked = Append(@, Answer("foreground", ok, status))], "false")
               ELSE [call EXCEPT !.asked = Append(@, Answer("foreground", ok, status)), !.pc = "background"]
    /\ UNCHANGED <<server, tokenItem, clock, geofenceItem, authToken, inv, nSamples, registered, nCalls>>

(* startGeofencing, lines 1354-1359: requestBackgroundPermissionsAsync *)
(* resolves with `status`                                              *)
StartBackground(ok, status) ==
    /\ call.op = "start" /\ call.pc = "background"
    /\ call' = IF ~ok \/ status # "granted"
               THEN Returns([call EXCEPT !.asked = Append(@, Answer("background", ok, status))], "false")
               ELSE [call EXCEPT !.asked = Append(@, Answer("background", ok, status)), !.pc = "startUpdates"]
    /\ UNCHANGED <<server, tokenItem, clock, geofenceItem, authToken, inv, nSamples, registered, nCalls>>

(* startGeofencing, lines 1362-1380: startLocationUpdatesAsync resolves and *)
(* the task is registered, or it throws and the catch returns false         *)
StartUpdates(ok) ==
    /\ call.op = "start" /\ call.pc = "startUpdates"
    /\ registered' = (ok \/ registered)
    /\ call' = IF ok THEN Returns([call EXCEPT !.started = @ + 1], "true")
               ELSE Returns(call, "false")
    /\ UNCHANGED <<server, tokenItem, clock, geofenceItem, authToken, inv, nSamples, nCalls>>

(* stopGeofencing calling stopLocationUpdatesAsync whatever *)
(* isTaskRegisteredAsync answered                           *)
StopCheckAlways(ok) ==
    /\ call.op = "stop" /\ call.pc = "isRegistered"
    /\ call' = IF ok THEN [call EXCEPT !.pc = "stopUpdates"]
               ELSE Returns(call, "none")
    /\ UNCHANGED <<server, tokenItem, clock, geofenceItem, authToken, inv, nSamples, registered, nCalls>>

(* stopGeofencing, lines 1386-1390: isTaskRegisteredAsync resolves *)
StopCheck(ok) ==
    /\ call.op = "stop" /\ call.pc = "isRegistered"
    /\ call' = IF ok /\ registered THEN [call EXCEPT !.pc = "stopUpdates"]
               ELSE Returns(call, "none")
    /\ UNCHANGED <<server, tokenItem, clock, geofenceItem, authToken, inv, nSamples, registered, nCalls>>

(* The task events whose invocations are suspended *)
InFlight == {inv[i].seq : i \in {j \in Slots : Suspended(j)}}

(* stopGeofencing that also resets the persisted state *)
StopUpdatesAndClear(ok) ==
    /\ call.op = "stop" /\ call.pc = "stopUpdates"
    /\ registered' = (registered /\ ~ok)
    /\ geofenceItem' = saveGeofenceState(geofenceItem, DefaultState, ok)
    /\ call' = IF ok
               THEN Returns([call EXCEPT !.stopped = @ + 1, !.cut = InFlight], "none")
               ELSE Returns(call, "none")
    /\ UNCHANGED <<server, tokenItem, clock, authToken, inv, nSamples, nCalls>>

(* stopGeofencing, lines 1391-1396: stopLocationUpdatesAsync resolves and *)
(* the task is unregistered, or it throws and the catch logs              *)
StopUpdates(ok) ==
    /\ call.op = "stop" /\ call.pc = "stopUpdates"
    /\ registered' = (registered /\ ~ok)
    /\ call' = IF ok
               THEN Returns([call EXCEPT !.stopped = @ + 1, !.cut = InFlight], "none")
               ELSE Returns(call, "none")
    /\ UNCHANGED <<server, tokenItem, clock, geofenceItem, authToken, inv, nSamples, nCalls>>

(* isGeofencingActive, lines 1400-1407 *)
ActiveCheck(ok) ==
    /\ call.op = "active" /\ call.pc = "isRegistered"
    /\ call' = Returns(call, IF ok /\ registered THEN "true" ELSE "false")
    /\ UNCHANGED <<server, tokenItem, clock, geofenceItem, authToken, inv, nSamples, registered, nCalls>>

(* getCurrentState, lines 1410-1412: what it returns *)
getCurrentState(item, readOk) == getGeofenceState(item, readOk)

(* getCurrentState: AsyncStorage.getItem resolves *)
GetCurrentState(readOk) ==
    /\ call.op = "get" /\ call.pc = "getItem"
    /\ call' = Returns([call EXCEPT !.got = getCurrentState(geofenceItem, readOk),
                                    !.readThrew = ~readOk], "none")
    /\ UNCHANGED <<server, tokenItem, clock, geofenceItem, authToken, inv, nSamples, registered, nCalls>>

(* The task events whose invocations are between the load of the state   *)
(* and the return                                                         *)
Cycling == {inv[i].seq : i \in {j \in Slots : InCycle(j)}}

(* clearState stamping the time of the reset *)
ClearStateStamped(writeOk) ==
    /\ call.op = "clear" /\ call.pc = "setItem"
    /\ geofenceItem' = saveGeofenceState(geofenceItem,
                           [currentCourtId |-> Null, lastCheckTime |-> clock], writeOk)
    /\ call' = Returns([call EXCEPT !.cut = IF writeOk THEN Cycling ELSE {}], "none")
    /\ UNCHANGED <<server, tokenItem, clock, authToken, inv, nSamples, registered, nCalls>>

(* clearState, lines 1415-1417 *)
ClearState(writeOk) ==
    /\ call.op = "clear" /\ call.pc = "setItem"
    /\ geofenceItem' = saveGeofenceState(geofenceItem,
                           [currentCourtId |-> Null, lastCheckTime |-> 0], writeOk)
    /\ call' = Returns([call EXCEPT !.cut = IF writeOk THEN Cycling ELSE {}], "none")
    /\ UNCHANGED <<server, tokenItem, clock, authToken, inv, nSamples, registered, nCalls>>

(* What checkPermissions keeps of a permission status: status === 'granted' *)
Granted(status) == IF status = "granted" THEN "granted" ELSE "not granted"

(* checkPermissions, line 1424: getForegroundPermissionsAsync resolves, or *)
(* throws; nothing catches                                                *)
PermForeground(ok, status) ==
    /\ call.op = "permissions" /\ call.pc = "getForeground"
    /\ call' = IF ok
               THEN [call EXCEPT !.asked = Append(@, Answer("foreground", ok, Granted(status))),
                                 !.pc = "getBackground"]
               ELSE Returns(call, "threw")
    /\ UNCHANGED <<server, tokenItem, clock, geofenceItem, authToken, inv, nSamples,
                   registered, nCalls>>

(* checkPermissions, lines 1425-1430: getBackgroundPermissionsAsync       *)
(* resolves and the two booleans are returned, or it throws               *)
PermBackground(ok, status) ==
    /\ call.op = "permissions" /\ call.pc = "getBackground"
    /\ call' = IF ok
               THEN Returns([call EXCEPT !.asked = Append(@, Answer("background", ok, Granted(status)))],
                            "none")
               ELSE Returns(call, "threw")
    /\ UNCHANGED <<server, tokenItem, clock, geofenceItem, authToken, inv, nSamples,
                   registered, nCalls>>

(* login and register of the AuthProvider: the backend answers; on success *)
(* the token is kept and then stored, on failure an Error is thrown         *)
LoginResp(ok) ==
    /\ call.op = "login" /\ call.pc = "post"
    /\ call' = IF ok THEN [call EXCEPT !.pc = "storeToken"]
               ELSE Returns(call, "threw")
    /\ UNCHANGED <<server, tokenItem, clock, geofenceItem, authToken, inv, nSamples,
                   registered, nCalls>>

(* login and register: AsyncStorage.setItem('token', newToken) resolves *)
LoginStore(writeOk) ==
    /\ call.op = "login" /\ call.pc = "storeToken"
    /\ tokenItem' = IF writeOk THEN <<"jwt">> ELSE tokenItem
    /\ call' = Returns(call, IF writeOk THEN "true" ELSE "threw")
    /\ UNCHANGED <<server, clock, geofenceItem, authToken, inv, nSamples,
                   registered, nCalls>>

(* handleLogout of the profile screen, once confirmed: logout() of the     *)
(* AuthProvider removes the item 'token'; the screen is then replaced      *)
Logout(ok) ==
    /\ call.op = "logout" /\ call.pc = "removeItem"
    /\ tokenItem' = IF ok THEN <<>> ELSE tokenItem
    /\ call' = Returns(call, "none")
    /\ UNCHANGED <<server, clock, geofenceItem, authToken, inv, nSamples,
                   registered, nCalls>>

(* The application calls a method *)
Call == \E op \in Methods : Begin(op)

(* A suspended method resumes; `platform` and `storage` hold the possible *)
(* outcomes of a platform call and of a storage call                      *)
Control(platform, storage) ==
    \/ \E ok \in platform : StartCheck(ok)
    \/ \E ok \in platform, status \in Statuses : StartForeground(ok, status)
    \/ \E ok \in platform, status \in Statuses : StartBackground(ok, status)
    \/ \E ok \in platform : StartUpdates(ok)
    \/ \E ok \in platform : StopCheck(ok)
    \/ \E ok \in platform : StopUpdates(ok)
    \/ \E ok \in platform : ActiveCheck(ok)
    \/ \E readOk \in storage : GetCurrentState(readOk)
    \/ \E writeOk \in storage : ClearState(writeOk)
    \/ \E ok \in platform, status \in Statuses : PermForeground(ok, status)
    \/ \E ok \in platform, status \in Statuses : PermBackground(ok, status)
    \/ \E ok \in BOOLEAN : LoginResp(ok)
    \/ \E writeOk \in storage : LoginStore(writeOk)
    \/ \E ok \in storage : Logout(ok)

(* The state a process leaves persisted when it ends between the save of  *)
(* an ENTER at court A and the final save of the cycle                    *)
LeftAtA == saveGeofenceState(<<>>, [currentCourtId |-> "A", lastCheckTime |-> 0], TRUE)

(* A stored text that JSON.parse rejects: the text of LeftAtA cut short    *)
Truncated == <<SubSeq(LeftAtA[1], 1, 1)>>

(* The task may or may not be registered when the application starts, and *)
(* a state may be persisted: both outlive the process that made them      *)
ControlStart(items) ==
    /\ clock = StartTime
    /\ geofenceItem \in items
    /\ authToken \in {<<>>, <<"jwt">>}
    /\ inv = [i \in Slots |-> Blank]
    /\ nSamples = 0
    /\ registered \in BOOLEAN
    /\ call = NoCall
    /\ nCalls = 0
    /\ tokenItem = <<>>
    /\ server = IF geofenceItem = <<>> THEN Null ELSE "A"

ControlInit == ControlStart({<<>>, LeftAtA})

(* The stored text may also be damaged *)
FaultyControlInit == ControlStart({<<>>, LeftAtA, Truncated})

(* A task event delivered while no invocation is suspended.  The methods  *)
(* are studied against one invocation at a time; overlapping invocations  *)
(* are the subject of Spec and FaultySpec                                 *)
DeliverAlone ==
    /\ nSamples < MaxControlSamples
    /\ \A i \in Slots : ~Suspended(i)
    /\ Deliver

(* ControlSpec: the platform and AsyncStorage are reliable.               *)
(* FaultyControlSpec: their calls may throw, and the stored text may be   *)
(* damaged.                                                               *)
ControlNext == Tick \/ DeliverAlone \/ Resume({TRUE}) \/ Call \/ Control({TRUE}, {TRUE})

ControlSpec == ControlInit /\ [][ControlNext]_vars

FaultyControlNext == Tick \/ DeliverAlone \/ Resume(BOOLEAN) \/ Call \/ Control(BOOLEAN, BOOLEAN)

FaultyControlSpec == FaultyControlInit /\ [][FaultyControlNext]_vars

----------------------------------------------------------------------------
(* Vocabulary of the properties *)

Courts == {CourtA, CourtB}

Distance(latitude, court) ==
    calculateDistance(latitude, 0, court.latitude, court.longitude)

InGeofence(latitude, court) == Distance(latitude, court) < GEOFENCE_RADIUS

(* The ids of the courts of a catalog at minimum distance from a sample,   *)
(* among those within the radius; {Null} when none is within the radius    *)
NearestInRadius(courts, latitude) ==
    LET inRadius == {k \in 1 .. Len(courts) : InGeofence(latitude, courts[k])}
    IN IF inRadius = {}
       THEN {Null}
       ELSE {courts[k].id : k \in {m \in inRadius :
                \A n \in inRadius :
                   Distance(latitude, courts[m]) <= Distance(latitude, courts[n])}}

Done(i) == inv[i].pc = "done"

(* The invocation got past the throttle and the empty-catalog check *)
Evaluated(r) == r.fetched /\ Len(r.courts) > 0

(* No check-in or check-out call of the invocation has failed *)
GatewayOk(r) == r.outOk # "fail" /\ r.inOk # "fail"

Requests(r) == {r.reqs[k] : k \in 1 .. Len(r.reqs)}

(* Invocation j was delivered while invocation i was suspended *)
Overlaps(j, i) == \E b \in BOOLEAN : <<inv[i].seq, b>> \in inv[j].during

(* Invocation j was delivered while the cycle of invocation i was under way *)
DeliveredDuringCycle(j, i) == <<inv[i].seq, TRUE>> \in inv[j].during

----------------------------------------------------------------------------
(* C1: after a cycle that ran to completion and whose gateway calls all    *)
(* succeeded, the persisted currentCourtId is the nearest court within     *)
(* 75 m of the cycle's sample, and null when no court is within 75 m.      *)
C1_CurrentCourtIsNearest ==
    \A i \in Slots :
       (Done(i) /\ Evaluated(inv[i]) /\ GatewayOk(inv[i]))
          => inv[i].left.currentCourtId
                \in NearestInRadius(inv[i].courts, inv[i].location)

(* C2: two consecutive non-throttled cycles from currentCourtId = null at  *)
(* the same position inside a court, with the same catalog and all gateway *)
(* calls succeeding, send one request in total: checkIn in the first cycle *)
(* and nothing in the second.                                              *)
C2_Idempotent ==
    \A i, j \in Slots :
       (/\ Done(i) /\ Done(j)
        /\ inv[j].seq = inv[i].seq + 1
        /\ inv[i].during = {} /\ inv[j].during = {}
        /\ inv[i].loaded.currentCourtId = Null
        /\ inv[i].location = inv[j].location
        /\ inv[i].courts = inv[j].courts
        /\ Evaluated(inv[i]) /\ Evaluated(inv[j])
        /\ inv[i].nearestCourt # Null
        /\ GatewayOk(inv[i]) /\ GatewayOk(inv[j]))
          => /\ inv[i].reqs = <<checkin(inv[i].nearestCourt)>>
             /\ inv[j].reqs = <<>>

(* C3: at most one invocation is between its state load and its return.    *)
C3_CyclesSerialized == Cardinality({i \in Slots : InCycle(i)}) <= 1

(* C4: two samples inside the geofence of court c, the second delivered    *)
(* before the cycle of the first has finished, both finding currentCourtId *)
(* null: at most one checkIn(c) is sent for the two.                       *)
C4_NoDoubleCheckIn ==
    \A i, j \in Slots : \A c \in Courts :
       (/\ i # j
        /\ Overlaps(j, i)
        /\ InGeofence(inv[i].location, c) /\ InGeofence(inv[j].location, c)
        /\ inv[i].loaded.currentCourtId = Null
        /\ inv[j].loaded.currentCourtId = Null)
          => ~(checkin(c.id) \in Requests(inv[i]) /\ checkin(c.id) \in Requests(inv[j]))

(* C5: in a switch from A to B whose checkOut(A) fails, no checkIn(B) is   *)
(* sent and the persisted currentCourtId after the cycle is still A.       *)
C5_SwitchAbortsOnFailedCheckOut ==
    \A i \in Slots :
       (/\ inv[i].loaded.currentCourtId # Null
        /\ inv[i].nearestCourt # Null
        /\ inv[i].nearestCourt # inv[i].loaded.currentCourtId
        /\ inv[i].outOk = "fail")
          => /\ checkin(inv[i].nearestCourt) \notin Requests(inv[i])
             /\ Done(i) => inv[i].left.currentCourtId = inv[i].loaded.currentCourtId

(* C6: a cycle whose check-in (ENTER) or check-out (EXIT) fails leaves the *)
(* persisted state equal to the state it loaded, currentCourtId and        *)
(* lastCheckTime.                                                          *)
C6_FailureLeavesStateUntouched ==
    \A i \in Slots :
       (/\ Done(i)
        /\ Evaluated(inv[i])
        /\ \/ inv[i].loaded.currentCourtId = Null /\ inv[i].inOk = "fail"
           \/ inv[i].nearestCourt = Null /\ inv[i].outOk = "fail")
          => inv[i].left = inv[i].loaded

(* Every sample handled so far was taken inside the geofence of court c    *)
(* and of no other court, and every catalog received held courts           *)
StaysAt(c) ==
    \A i \in Slots :
       inv[i].pc # "idle" =>
          /\ \A d \in Courts : InGeofence(inv[i].location, d) <=> d = c
          /\ (inv[i].fetched /\ inv[i].pc # "fetching") => Len(inv[i].courts) > 0

(* C7: while the device stays inside the geofence of one court c and the   *)
(* catalog fetch succeeds, the persisted currentCourtId, once c, stays c.  *)
C7_StaysCheckedIn ==
    [][\A c \in Courts :
          (/\ StaysAt(c) /\ StaysAt(c)'
           /\ Persisted(geofenceItem).currentCourtId = c.id)
             => Persisted(geofenceItem').currentCourtId = c.id]_vars

(* C8: an invocation that finds now - lastCheckTime < 30000 ms returns     *)
(* without fetching the catalog, without a check-in or check-out request   *)
(* and without writing the persisted state.                                *)
C8_ThrottleDrop ==
    \A i \in Slots :
       (/\ inv[i].pc \notin {"idle", "invoked"}
        /\ inv[i].now - inv[i].loaded.lastCheckTime < CHECK_INTERVAL)
          => /\ Done(i)
             /\ ~inv[i].fetched
             /\ inv[i].reqs = <<>>
             /\ inv[i].writes = 0

(* A throttled invocation has returned: its sample came less than 30 s     *)
(* after the lastCheckTime an earlier cycle persisted                      *)
C8_Witness ==
    \E i \in Slots :
       /\ Done(i)
       /\ inv[i].loaded.lastCheckTime >= StartTime
       /\ inv[i].now - inv[i].loaded.lastCheckTime < CHECK_INTERVAL
       /\ inv[i].left = inv[i].loaded

(* C9: of two samples delivered less than 30 s apart, at most one fetches  *)
(* the court catalog.                                                      *)
C9_ThrottleBound ==
    \A i, j \in Slots :
       (/\ i # j
        /\ inv[i].pc # "idle" /\ inv[j].pc # "idle"
        /\ Abs(inv[i].deliveredAt - inv[j].deliveredAt) < CHECK_INTERVAL)
          => ~(inv[i].fetched /\ inv[j].fetched)

(* C10: a sample delivered while the network calls of a cycle are          *)
(* outstanding is not evaluated while that cycle is under way.             *)
C10_Coalescing ==
    \A i, j \in Slots :
       (i # j /\ DeliveredDuringCycle(j, i) /\ InCycle(i)) => ~inv[j].fetched

(* The catalog of the invocation came back empty (or its fetch failed) *)
EmptyCatalog(r) ==
    r.fetched /\ r.pc \notin {"invoked", "fetching"} /\ Len(r.courts) = 0

(* C11: when the catalog fetch fails or returns no courts, the cycle sends *)
(* no check-in or check-out request and does not write the persisted       *)
(* state, whatever the state it loaded.                                    *)
C11_EmptyCatalogIsNoOp ==
    \A i \in Slots :
       EmptyCatalog(inv[i])
          => /\ Done(i)
             /\ inv[i].reqs = <<>>
             /\ inv[i].outOk = "none" /\ inv[i].inOk = "none"
             /\ inv[i].writes = 0

(* A cycle that loaded currentCourtId A received an empty catalog and      *)
(* returned (NONE, not EXIT)                                               *)
C11_Witness ==
    \E i \in Slots :
       /\ Done(i)
       /\ EmptyCatalog(inv[i])
       /\ inv[i].loaded.currentCourtId = "A"
       /\ inv[i].left.currentCourtId = "A"

(* C12: a cycle writes the persisted state at most once, and no write of   *)
(* a cycle falls between the state load and the return of another cycle.   *)
C12_OneWritePerCycle ==
    [][\A i \in Slots :
          inv'[i].writes > inv[i].writes
             => /\ inv[i].writes = 0
                /\ \A j \in Slots \ {i} : ~InCycle(j)]_vars

(* The cycle of the invocation is a switch: it loaded a court and found    *)
(* another court nearest within the radius                                 *)
Switch(r) ==
    /\ r.loaded.currentCourtId # Null
    /\ r.nearestCourt # Null
    /\ r.nearestCourt # r.loaded.currentCourtId

(* checkInToCourt has been called by the invocation *)
CheckInCalled(r) == r.pc \in {"inToken", "inWait"} \/ r.inOk # "none"

(* C13: in a switch from A to B, checkOut(A) is sent and has completed     *)
(* before checkIn(B) is sent; checkIn(B) is never sent before or while     *)
(* checkOut(A) is outstanding.                                             *)
C13_SwitchOrder ==
    \A i \in Slots :
       Switch(inv[i]) =>
          /\ CheckInCalled(inv[i]) => inv[i].outOk # "none"
          /\ checkin(inv[i].nearestCourt) \in Requests(inv[i]) =>
                inv[i].reqs = <<checkout(inv[i].loaded.currentCourtId),
                                checkin(inv[i].nearestCourt)>>

(* A switch from A to B has sent checkOut(A), received its answer, and     *)
(* then sent checkIn(B)                                                    *)
C13_Witness ==
    \E i \in Slots :
       /\ Switch(inv[i])
       /\ inv[i].outOk = "ok"
       /\ inv[i].reqs = <<checkout("A"), checkin("B")>>

(* The requests of the transition table for a loaded currentCourtId and a  *)
(* nearest court n within the radius (Null: no court within the radius)    *)
Table(prior, n) ==
    IF n # Null
    THEN IF prior = Null THEN <<checkin(n)>>
         ELSE IF prior = n THEN <<>>
         ELSE <<checkout(prior), checkin(n)>>
    ELSE IF prior # Null THEN <<checkout(prior)>> ELSE <<>>

(* The gateway calls a returned invocation has made, in order *)
Calls(r) ==
    (IF r.outOk # "none" THEN <<checkout(r.loaded.currentCourtId)>> ELSE <<>>)
       \o (IF r.inOk # "none" THEN <<checkin(r.nearestCourt)>> ELSE <<>>)

(* C14: the gateway calls of a non-throttled cycle with a non-empty        *)
(* catalog are exactly those of the transition table, and with a stored    *)
(* credential each of them sends its request.                              *)
C14_TransitionTable ==
    \A i \in Slots :
       (Done(i) /\ Evaluated(inv[i])) =>
          \E n \in NearestInRadius(inv[i].courts, inv[i].location) :
             /\ Calls(inv[i]) = Table(inv[i].loaded.currentCourtId, n)
             /\ inv[i].reqs =
                   IF Len(authToken) > 0
                   THEN Table(inv[i].loaded.currentCourtId, n)
                   ELSE <<>>

(* A cycle that loaded the court it is still in has returned without a     *)
(* request, and another has made the two requests of a switch              *)
C14_Witness ==
    \E i, j \in Slots :
       /\ Done(i) /\ Evaluated(inv[i])
       /\ inv[i].loaded.currentCourtId = "A" /\ inv[i].nearestCourt = "A"
       /\ inv[i].reqs = <<>>
       /\ Done(j) /\ Evaluated(inv[j])
       /\ inv[j].reqs = <<checkin("A")>>

(* The cycles that have computed nearestCourt from a non-empty catalog *)
Selected(r) == Evaluated(r) /\ r.pc # "fetching"

(* The minimum distance from a sample to the courts of a non-empty catalog *)
MinDistance(courts, latitude) ==
    CHOOSE d \in {Distance(latitude, courts[k]) : k \in 1 .. Len(courts)} :
        \A k \in 1 .. Len(courts) : d <= Distance(latitude, courts[k])

(* C15: the court a cycle treats as entered is a court at minimum distance  *)
(* from the sample among all the courts of the catalog, and a court is      *)
(* selected if and only if that minimum distance is strictly less than      *)
(* 75 m: a court at exactly 75 m is not entered, one at 50 m is.            *)
C15_NearestInRadius ==
    \A i \in Slots : Selected(inv[i]) =>
        LET r == inv[i]
            dmin == MinDistance(r.courts, r.location)
        IN /\ r.nearestCourt # Null <=> dmin < 75
           /\ r.nearestCourt # Null =>
                 \E k \in 1 .. Len(r.courts) :
                    /\ r.courts[k].id = r.nearestCourt
                    /\ Distance(r.location, r.courts[k]) = dmin

(* Two finished cycles: one whose nearest court is exactly 75 m away and    *)
(* that selected none, one whose nearest court is 50 m away and that        *)
(* selected it                                                              *)
C15_Witness ==
    \E i, j \in Slots :
        /\ Done(i) /\ Selected(inv[i])
        /\ MinDistance(inv[i].courts, inv[i].location) = 75
        /\ inv[i].nearestCourt = Null
        /\ Done(j) /\ Selected(inv[j])
        /\ MinDistance(inv[j].courts, inv[j].location) = 50
        /\ inv[j].nearestCourt # Null

(* The lowest id of a non-empty set of court ids *)
LowestId(ids) == IF "A" \in ids THEN "A" ELSE "B"

(* C16: when several courts within the radius are at the same minimum       *)
(* distance from the sample, the court selected is the one with the lowest  *)
(* id, whatever the order in which the catalog lists the courts.            *)
C16_TieBreakLowestId ==
    \A i \in Slots : Selected(inv[i]) =>
        LET ids == NearestInRadius(inv[i].courts, inv[i].location)
        IN Cardinality(ids) > 1 => inv[i].nearestCourt = LowestId(ids)

----------------------------------------------------------------------------
(* The methods of GeofencingService *)

(* startGeofencing was called while the task was not registered *)
Starting == call.op = "start" /\ ~call.was

(* A permission requested by the call under way was not granted *)
Denied == \E k \in 1 .. Len(call.asked) : call.asked[k].status # "granted"

(* C17: startGeofencing with monitoring inactive requests the foreground    *)
(* permission and then the background permission; if either is not granted  *)
(* it returns false and the location task is not registered, and the        *)
(* background permission is not requested when the foreground one was not   *)
(* granted.                                                                 *)
C17_PermissionsGateStart ==
    Starting =>
        /\ Len(call.asked) <= 2
        /\ Len(call.asked) >= 1 => call.asked[1].permission = "foreground"
        /\ Len(call.asked) = 2 => /\ call.asked[2].permission = "background"
                                  /\ call.asked[1].status = "granted"
        /\ (call.pc = "startUpdates" \/ call.started > 0) =>
               Len(call.asked) = 2 /\ ~Denied
        /\ Denied => /\ call.pc = "done" /\ call.result = "false"
                     /\ call.started = 0 /\ ~registered

(* startGeofencing returned after the foreground permission was granted and *)
(* the background permission denied                                        *)
C17_Witness ==
    /\ Starting /\ call.pc = "done" /\ call.result = "false"
    /\ Len(call.asked) = 2
    /\ call.asked[1].status = "granted" /\ call.asked[2].status = "denied"
    /\ ~registered

(* C18: startGeofencing called while the task is registered returns true    *)
(* without requesting a permission and without starting location updates a  *)
(* second time; stopGeofencing called while the task is not registered      *)
(* changes nothing; the registration changes only in a startGeofencing      *)
(* that started the updates and in a stopGeofencing that stopped them, and  *)
(* isGeofencingActive returns the registration.                             *)
C18_StartStopIdempotent ==
    [][/\ (call'.op = "start" /\ call'.was) =>
             /\ call'.asked = <<>> /\ call'.started = 0 /\ registered'
             /\ call'.pc = "done" => call'.result = "true"
       /\ (call'.op = "stop" /\ ~call'.was) =>
             /\ call'.stopped = 0 /\ ~registered'
             /\ call' # call => UNCHANGED <<geofenceItem, authToken, inv>>
       /\ (call'.op = "active" /\ call'.pc = "done") =>
             (call'.result = "true" <=> registered')
       /\ registered' # registered =>
             \/ /\ call'.op = "start" /\ ~call'.was
                /\ call'.started = 1 /\ registered'
             \/ /\ call'.op = "stop" /\ call'.was
                /\ call'.stopped = 1 /\ ~registered'
      ]_vars

(* The third call of a run is a startGeofencing that found the task         *)
(* registered and returned true                                             *)
C18_Witness ==
    /\ nCalls = 3
    /\ call.op = "start" /\ call.was /\ call.pc = "done"
    /\ call.result = "true" /\ call.asked = <<>> /\ call.started = 0
    /\ registered

(* The invocations that were suspended when stopGeofencing took effect *)
CutShort == {i \in Slots : call.op = "stop" /\ inv[i].seq \in call.cut}

(* C19: stopGeofencing does not interrupt a cycle in flight: a suspended    *)
(* invocation can always resume, and one that was suspended when the        *)
(* updates were stopped and has returned from a cycle has had an answer to  *)
(* every gateway call it made and has saved its state; and no step of       *)
(* stopGeofencing writes the persisted state or touches an invocation.      *)
C19_StopLeavesCycleAlone ==
    /\ [](\A i \in Slots : Suspended(i) => ENABLED Resume({TRUE}))
    /\ [](\A i \in CutShort : (Done(i) /\ Evaluated(inv[i])) =>
             /\ inv[i].writes >= 1
             /\ Len(inv[i].reqs) <= Len(Calls(inv[i])))
    /\ [][(call' # call /\ call'.op = "stop") =>
             UNCHANGED <<geofenceItem, inv>>]_vars

(* stopGeofencing unregistered the task while a cycle was suspended; the    *)
(* cycle then checked in at court B and saved its state                     *)
C19_Witness ==
    /\ call.op = "stop" /\ call.stopped = 1 /\ ~registered
    /\ \E i \in CutShort :
          /\ Done(i) /\ inv[i].inOk = "ok" /\ inv[i].writes >= 1
          /\ inv[i].reqs # <<>>

(* The step in which the setItem of clearState takes effect *)
Cleared == call.op = "clear" /\ call.pc = "setItem" /\ call'.pc = "done"

(* C20: whatever state was persisted, getCurrentState called right after    *)
(* clearState returns {currentCourtId: null, lastCheckTime: 0}.             *)
C20_ClearResets ==
    [][Cleared => getCurrentState(geofenceItem', TRUE) = DefaultState]_vars

(* clearState has returned; court A was persisted when it was called and    *)
(* the default state is persisted now                                       *)
C20_Witness ==
    /\ call.op = "clear" /\ call.pc = "done"
    /\ call.prior.currentCourtId = "A"
    /\ getCurrentState(geofenceItem, TRUE) = DefaultState

----------------------------------------------------------------------------
(* The session *)

(* The user has confirmed logout and logout() has returned *)
LoggedOut == call.op = "logout" /\ call.pc = "done"

(* C21: after the user confirms logout, the location task is no longer     *)
(* registered and the persisted state is the default state, whatever they  *)
(* were before.                                                            *)
C21_LogoutCleansUp ==
    LoggedOut => ~registered /\ Persisted(geofenceItem) = DefaultState

(* checkInToCourt or checkOutOfCourt was called by the cycle and returned *)
GatewayCalled(r) == r.outOk # "none" \/ r.inOk # "none"

(* C22: when no credential is stored, checkInToCourt and checkOutOfCourt    *)
(* send no request and return false without an exception, and the cycle     *)
(* goes on as after a failed call: no ENTER is saved.                       *)
C22_MissingCredential ==
    \A i \in Slots :
       Len(authToken) = 0 =>
          /\ inv[i].reqs = <<>>
          /\ inv[i].pc \notin {"outWait", "inWait", "enterSave"}
          /\ inv[i].outOk # "ok" /\ inv[i].inOk # "ok"
          /\ inv[i].pc \in {"inToken", "exitSave"} =>
                (inv[i].loaded.currentCourtId # Null => inv[i].outOk = "fail")
          /\ (Done(i) /\ Evaluated(inv[i]) /\ Transition(inv[i].nearestCourt,
                   inv[i].loaded.currentCourtId) \in {"outToken", "inToken"}) =>
                GatewayCalled(inv[i])

(* With no credential stored, a cycle that loaded court A and found B       *)
(* nearest has returned: both calls returned false and sent nothing         *)
C22_Witness ==
    \E i \in Slots :
       /\ Len(authToken) = 0 /\ Done(i)
       /\ inv[i].loaded.currentCourtId = "A" /\ inv[i].nearestCourt = "B"
       /\ inv[i].outOk = "fail" /\ inv[i].inOk = "fail" /\ inv[i].reqs = <<>>

----------------------------------------------------------------------------
(* The state store *)

(* The step in which the getItem of getCurrentState resolves *)
Got == call.op = "get" /\ call.pc = "getItem" /\ call'.pc = "done"

(* The state a cycle suspended on a save is saving *)
Saving(r) ==
    CASE r.pc = "enterSave" -> [currentCourtId |-> r.nearestCourt, lastCheckTime |-> r.now]
      [] r.pc = "exitSave" -> [currentCourtId |-> Null, lastCheckTime |-> r.now]
      [] r.pc = "finalSave" -> [currentCourtId |-> r.loaded.currentCourtId,
                                lastCheckTime |-> r.now]

(* C23: getGeofenceState returns the default state when nothing is          *)
(* persisted, when the read throws or when the stored text does not parse,  *)
(* and otherwise the state last saved: what is read after a save is the     *)
(* state that was saved; and a cycle whose load gave the default state goes *)
(* on to fetch the catalog.                                                 *)
C23_LoadNeverFails ==
    /\ [][Got =>
            call'.got = IF \/ call'.readThrew
                           \/ geofenceItem = <<>>
                           \/ ~Parses(geofenceItem[1])
                        THEN DefaultState
                        ELSE JSONparse(geofenceItem[1])]_vars
    /\ [][\A i \in Slots :
            (inv'[i].writes > inv[i].writes /\ geofenceItem' # geofenceItem) =>
               getGeofenceState(geofenceItem', TRUE) = Saving(inv[i])]_vars
    /\ [](\A i \in Slots :
            (inv[i].pc \notin {"idle", "invoked"} /\ inv[i].loaded = DefaultState) =>
               inv[i].fetched)

(* The stored text is damaged: getCurrentState has returned the default     *)
(* state without a throw, and a cycle that loaded the default state is      *)
(* fetching the catalog                                                     *)
C23_Witness ==
    /\ geofenceItem = Truncated
    /\ call.op = "get" /\ call.pc = "done" /\ ~call.readThrew
    /\ call.got = DefaultState
    /\ \E i \in Slots : inv[i].pc = "fetching" /\ inv[i].loaded = DefaultState

----------------------------------------------------------------------------
(* Failures *)

(* The methods of GeofencingService *)
ServiceMethods == {"start", "stop", "active", "get", "clear", "permissions"}

(* C24: whatever fails (storage, the gateway, the catalog request, a        *)
(* permission or task-manager call), no method of GeofencingService ends    *)
(* in an exception.                                                         *)
C24_NothingFatal ==
    call.op \in ServiceMethods => call.result # "threw"

----------------------------------------------------------------------------
(* Runs of cycles *)

(* No invocation was delivered while another was suspended *)
NoOverlap == \A i \in Slots : inv[i].during = {}

(* No invocation is suspended *)
Quiet == \A i \in Slots : ~Suspended(i)

C26_AgreesWithServer ==
    Quiet => Persisted(geofenceItem).currentCourtId = server

(* The user is logged in: login or register has stored the token and no    *)
(* logout has removed it                                                   *)
LoggedIn == Len(tokenItem) > 0

(* C27: while the user is logged in, checkInToCourt and checkOutOfCourt     *)
(* read a token and send their request: the gateway reads the item the      *)
(* AuthProvider stores.                                                     *)
C27_GatewayFindsCredential ==
    [][\A i \in Slots :
         /\ (LoggedIn /\ inv[i].pc = "inToken" /\ inv'[i].pc # "inToken") =>
               inv'[i].pc = "inWait"
         /\ (LoggedIn /\ inv[i].pc = "outToken" /\ inv'[i].pc # "outToken") =>
               inv'[i].pc = "outWait"]_vars

(* The cycles that were between their load and their final save when the   *)
(* save of clearState took effect, and have finished since                  *)
ClearedUnder == {i \in Slots : call.op = "clear" /\ inv[i].seq \in call.cut /\ Done(i)}

(* C28: when clearState ran while a cycle was between its load of the state *)
(* and its final save, the persisted state is the default state once that   *)
(* cycle has finished, unless the cycle performed a successful ENTER.       *)
C28_ClearNotUndone ==
    \A i \in ClearedUnder :
       inv[i].inOk # "ok" => Persisted(geofenceItem) = DefaultState

(* C29: in a run of cycles that do not overlap, with storage writes         *)
(* succeeding, two cycles that each sent a check-in or check-out request    *)
(* started at least 30 s apart, whether or not the requests succeeded.      *)
C29_RateLimited ==
    NoOverlap =>
       \A i, j \in Slots :
          (i # j /\ inv[i].reqs # <<>> /\ inv[j].reqs # <<>>) =>
             Abs(inv[i].now - inv[j].now) >= 30000

(* A cycle whose check-in at court A failed, and after it a cycle, started  *)
(* 30 s later, that sent the check-in again                                 *)
C29_Witness ==
    /\ NoOverlap
    /\ \E i, j \in Slots :
          /\ inv[i].seq = 1 /\ inv[j].seq = 2
          /\ inv[i].inOk = "fail" /\ inv[i].reqs = <<checkin("A")>>
          /\ inv[j].reqs = <<checkin("A")>>
          /\ inv[j].now - inv[i].now = 30000

(* C30: with a clock that never goes back, every write performed by         *)
(* processLocationUpdate stores a lastCheckTime greater than or equal to    *)
(* the one persisted just before the write.                                 *)
C30_LastCheckTimeMonotonic ==
    [][(\E i \in Slots : inv'[i].writes > inv[i].writes) =>
          Persisted(geofenceItem').lastCheckTime >= Persisted(geofenceItem).lastCheckTime]_vars

====
